---- MODULE Spec2Model ----
(***************************************************************************)
(* Model of the GMEToTheMoon ingestion pipeline:                           *)
(*   src/src/python/scrape_pushshift.py  (scraper: fetch_comments,         *)
(*                                        insert_comments, scrape)        *)
(*   src/migrate_csv_to_db.py            (bulk importer)                   *)
(*   src/setup_database.py               (comments table, primary key)     *)
(*                                                                         *)
(* The scraper and the importer are two programs, each with its database   *)
(* (data/wsb_data.sqlite with the table of db_schema.sql, and              *)
(* gme_reddit_data.db with the table of setup_database.py).                *)
(*                                                                         *)
(* The scraper's dates ("%Y-%m-%d" strings in the code) are the triples    *)
(* <<y, m, d>> of their fields; DateText is the string, DateLeq its order. *)
(* The importer's dates are texts, sequences of characters.                *)
(***************************************************************************)
EXTENDS Integers, Sequences, FiniteSets, TLC

(***************************************************************************)
(* Bounds of the model.                                                    *)
(***************************************************************************)
\* longest batch the modelled API answers with
MaxBatchLen == 2
\* number of requests of one run the modelled API answers with a non-empty batch
MaxBatches == 11
\* number of leading requests of one run the modelled API answers with any page
MaxFresh == 2
\* number of leading requests of one run during which the modelled API may fail
MaxFailBatch == 1
\* most files the directory the importer reads holds
MaxFiles == 2
\* most comments the source of an API that serves them in order holds
MaxRecords == 1102

(***************************************************************************)
(* Program constants.                                                      *)
(***************************************************************************)
BATCH_SIZE == 100
max_retries == 5
\* if batch_num % 10 == 0: conn.commit()
COMMIT_EVERY == 10
SecondsPerDay == 24 * 60 * 60

(***************************************************************************)
(* Calendar arithmetic of datetime (proleptic Gregorian, UTC).             *)
(***************************************************************************)
DaysFromCivil(date) ==
    LET y0  == date[1]
        m   == date[2]
        d   == date[3]
        y   == IF m <= 2 THEN y0 - 1 ELSE y0
        era == y \div 400
        yoe == y - era * 400
        mp  == IF m > 2 THEN m - 3 ELSE m + 9
        doy == (153 * mp + 2) \div 5 + d - 1
        doe == yoe * 365 + yoe \div 4 - yoe \div 100 + doy
    IN  era * 146097 + doe - 719468

CivilFromDays(days) ==
    LET z   == days + 719468
        era == z \div 146097
        doe == z - era * 146097
        yoe == (doe - doe \div 1460 + doe \div 36524 - doe \div 146096) \div 365
        doy == doe - (365 * yoe + yoe \div 4 - yoe \div 100)
        mp  == (5 * doy + 2) \div 153
        d   == doy - (153 * mp + 2) \div 5 + 1
        m   == IF mp < 10 THEN mp + 3 ELSE mp - 9
        y   == yoe + era * 400
    IN  << IF m <= 2 THEN y + 1 ELSE y, m, d >>

\* date_to_epoch: YYYY-MM-DD at 00:00:00 UTC as a Unix timestamp
date_to_epoch(date_str) == DaysFromCivil(date_str) * SecondsPerDay

\* epoch_to_date: Unix timestamp to the UTC calendar date
epoch_to_date(epoch) == CivilFromDays(epoch \div SecondsPerDay)

\* the characters of a "%Y-%m-%d" string, in the order of their codes
DateChars == << "-", "0", "1", "2", "3", "4", "5", "6", "7", "8", "9" >>

CharCode(c) == CHOOSE k \in 1..Len(DateChars) : DateChars[k] = c

\* the decimal digits of n >= 0, without padding
RECURSIVE Decimal(_)
Decimal(n) ==
    IF n < 10 THEN << DateChars[n + 2] >>
    ELSE Decimal(n \div 10) \o << DateChars[(n % 10) + 2] >>

\* strftime("%Y-%m-%d"): the year as its digits, month and day on two digits
DateText(date) ==
    Decimal(date[1]) \o << "-" >>
    \o << DateChars[(date[2] \div 10) + 2], DateChars[(date[2] % 10) + 2] >>
    \o << "-" >>
    \o << DateChars[(date[3] \div 10) + 2], DateChars[(date[3] % 10) + 2] >>

\* order of two texts, character by character
RECURSIVE TextLeq(_, _)
TextLeq(s, t) ==
    IF s = << >> THEN TRUE
    ELSE IF t = << >> THEN FALSE
    ELSE IF s[1] = t[1] THEN TextLeq(Tail(s), Tail(t))
    ELSE CharCode(s[1]) < CharCode(t[1])

\* order of two "%Y-%m-%d" strings, as MIN(date) and MAX(date) compare them
DateLeq(a, b) == TextLeq(DateText(a), DateText(b))

(***************************************************************************)
(* Inputs: the command line and what the API may answer.                   *)
(***************************************************************************)
StartDates == { <<2020, 12, 1>> }
EndDates   == { <<2020, 12, 1>>, <<2020, 12, 2>> }

Dec1 == date_to_epoch(<<2020, 12, 1>>)

\* a field the payload does not carry
NoStr == "<absent>"
NoInt == 0 - 1

\* a comment of the JSON payload: a dict holding only the fields present
Comment(i, b, t, rest) ==
    [ k \in ( (IF i = NoStr THEN {} ELSE {"id"})
              \cup (IF b = NoStr THEN {} ELSE {"body"})
              \cup (IF t = NoInt THEN {} ELSE {"created_utc"})
              \cup (IF rest THEN {"author", "score", "parent_id",
                                  "permalink", "subreddit"} ELSE {}) ) |->
        CASE k = "id"          -> i
          [] k = "body"        -> b
          [] k = "created_utc" -> t
          [] k = "author"      -> "u1"
          [] k = "score"       -> 7
          [] k = "parent_id"   -> "t3_x"
          [] k = "permalink"   -> "/r/wallstreetbets/x"
          [] k = "subreddit"   -> "wallstreetbets" ]

\* the comments the API may answer with
Payloads ==
    { Comment("a", "hi", Dec1 - 1, FALSE),
      Comment("a", "hi", Dec1 + 60, TRUE),
      Comment(NoStr, "hi", NoInt, FALSE),
      Comment(NoStr, "hi", NoInt, TRUE),
      Comment("a", "[deleted]", Dec1 + 1, TRUE),
      Comment(NoStr, "[removed]", NoInt, FALSE),
      Comment("a", "", Dec1 + SecondsPerDay + 5, FALSE),
      Comment("a", NoStr, NoInt, FALSE) }

Batches == UNION { [1..n -> Payloads] : n \in 1..MaxBatchLen }

\* dict.get(key, default)
Get(c, k, default) == IF k \in DOMAIN c THEN c[k] ELSE default

(***************************************************************************)
(* The Store: the rows of table comments, comment_id the primary key.      *)
(***************************************************************************)
\* setup_database.py: comment_id TEXT PRIMARY KEY
HasId(st, id) == \E r \in st : r.comment_id = id

\* the same key in the table the scraper writes (its db_schema.sql)
KeyTaken(st, id) == \E r \in st : r.comment_id = id

\* variant: INSERT OR REPLACE, the row whose key is taken is overwritten
InsertOrReplace(st, row) ==
    { r \in st : r.comment_id # row.comment_id } \cup {row}

\* INSERT OR IGNORE INTO comments: a row whose key is taken is skipped
InsertOrIgnore(st, row) ==
    IF KeyTaken(st, row.comment_id) THEN st ELSE st \cup {row}

SetMax(S) == CHOOSE x \in S : \A y \in S : y <= x

\* SELECT MAX(created_utc) FROM comments, on a non-empty table
MaxCreatedUtc(st) == SetMax({ r.created_utc : r \in st })

\* the column holding the calendar date of a row
RowDate(r) == r.date

MinDate(st) == CHOOSE d \in { RowDate(r) : r \in st } :
                   \A r \in st : DateLeq(d, RowDate(r))
MaxDate(st) == CHOOSE d \in { RowDate(r) : r \in st } :
                   \A r \in st : DateLeq(RowDate(r), d)

(***************************************************************************)
(* insert_comments                                                         *)
(***************************************************************************)
\* variant: "[removed]" is not filtered
ExcludedBodiesNoRemoved == { "[deleted]", "" }

ExcludedBodies == { "[deleted]", "[removed]", "" }

\* the tuple bound to the INSERT statement
CommentRow(c) ==
    [ comment_id  |-> Get(c, "id", ""),
      body        |-> Get(c, "body", ""),
      author      |-> Get(c, "author", "[deleted]"),
      score       |-> Get(c, "score", 1),
      created_utc |-> Get(c, "created_utc", 0),
      date        |-> epoch_to_date(Get(c, "created_utc", 0)),
      parent_id   |-> Get(c, "parent_id", ""),
      permalink   |-> Get(c, "permalink", ""),
      subreddit   |-> Get(c, "subreddit", "wallstreetbets") ]

\* one iteration of the for loop, on the pair of conn and inserted
InsertOne(acc, c) ==
    IF Get(c, "body", "") \in ExcludedBodies
    THEN acc
    ELSE [ conn     |-> InsertOrIgnore(acc.conn, CommentRow(c)),
           inserted |-> acc.inserted + 1 ]

\* the iterations lo..hi of the for loop, on conn and inserted.  The range
\* is taken in two halves, the second going on from the result of the first;
\* the test on the count, which an iteration never lowers, has the first
\* half evaluated before the second begins.
RECURSIVE InsertRange(_, _, _, _)
InsertRange(acc, comments, lo, hi) ==
    IF lo > hi THEN acc
    ELSE IF lo = hi THEN InsertOne(acc, comments[lo])
    ELSE LET half == InsertRange(acc, comments, lo, (lo + hi) \div 2)
         IN  IF half.inserted >= acc.inserted
             THEN InsertRange(half, comments, (lo + hi) \div 2 + 1, hi)
             ELSE acc

\* the for loop from comments[i] on
InsertFrom(acc, comments, i) == InsertRange(acc, comments, i, Len(comments))

insert_comments(conn, comments) ==
    InsertFrom([conn |-> conn, inserted |-> 0], comments, 1)

(***************************************************************************)
(* fetch_comments: the two backoff ladders                                 *)
(***************************************************************************)
Min(a, b) == IF a <= b THEN a ELSE b

\* variant: the 429 wait without its cap
ThrottleWaitUncapped(retries) == 2 ^ retries * 5

\* wait after HTTP 429, from retries before its increment
ThrottleWait(retries) == Min(2 ^ retries * 5, 60)

\* variant: a 429 does not count as an attempt
AfterThrottleUncounted(retries) == retries

\* retries += 1 in the 429 branch
AfterThrottle(retries) == retries + 1

\* wait after a RequestException, from retries after its increment
ErrorWait(retries) == Min(2 ^ retries * 2, 30)

(***************************************************************************)
(* scrape: resume point and cursor                                         *)
(***************************************************************************)
\* variant: the run always begins at the start boundary
ResumeFromStart(st, start_epoch) == start_epoch

\* variant: the run resumes one second past the last stored comment
ResumePastLast(st, start_epoch) ==
    IF st # {} /\ MaxCreatedUtc(st) # 0 /\ MaxCreatedUtc(st) > start_epoch
    THEN MaxCreatedUtc(st) + 1
    ELSE start_epoch

\* max_utc is None on an empty table and falsy when 0
ResumePoint(st, start_epoch) ==
    IF st # {} /\ MaxCreatedUtc(st) # 0 /\ MaxCreatedUtc(st) > start_epoch
    THEN MaxCreatedUtc(st)
    ELSE start_epoch

\* max(c.get("created_utc", 0) for c in comments)
LastUtc(comments) ==
    SetMax({ Get(comments[i], "created_utc", 0) : i \in 1..Len(comments) })

\* variant: the cursor is set to the batch's maximum whatever it is
NextCursorToLast(current_after, comments) == LastUtc(comments)

\* variant: the cursor advances by one second only
NextCursorStep(current_after, comments) == current_after + 1

\* variant: < for <=, a batch whose maximum equals the cursor moves nothing
NextCursorStrict(current_after, comments) ==
    IF LastUtc(comments) < current_after
    THEN current_after + 1
    ELSE LastUtc(comments)

NextCursor(current_after, comments) ==
    IF LastUtc(comments) <= current_after
    THEN current_after + 1
    ELSE LastUtc(comments)

(***************************************************************************)
(* migrate_csv_to_sqlite: one file.  A file is its name, its stem and      *)
(* suffix, what the pattern comments_(\d+)_([A-Za-z]+) matches in the name *)
(* (the texts of the two groups, as sequences of characters), its          *)
(* lower-cased column names and its rows (column name to cell).  A date    *)
(* cell of a file is a timestamp << year, month, day, hour >>; the text of *)
(* a date is a sequence of characters.                                     *)
(***************************************************************************)
NaN == "<NaN>"

\* column_mapping
ColumnMapping(col) ==
    CASE col = "body"         -> "body"
      [] col = "text"         -> "body"
      [] col = "comment"      -> "body"
      [] col = "date"         -> "created_date"
      [] col = "created_date" -> "created_date"
      [] col = "timestamp"    -> "created_date"
      [] col = "score"        -> "score"
      [] col = "upvotes"      -> "score"
      [] col = "author"       -> "author"
      [] col = "username"     -> "author"
      [] col = "id"           -> "comment_id"
      [] col = "comment_id"   -> "comment_id"
      [] OTHER                -> col

\* the rename loop, on a row
RenameRow(columns, row) ==
    [ c \in { ColumnMapping(k) : k \in columns } |->
        row[CHOOSE k \in columns : ColumnMapping(k) = c] ]

UpperCase == << "A", "B", "C", "D", "E", "F", "G", "H", "I", "J", "K", "L", "M",
                "N", "O", "P", "Q", "R", "S", "T", "U", "V", "W", "X", "Y", "Z" >>
LowerCase == << "a", "b", "c", "d", "e", "f", "g", "h", "i", "j", "k", "l", "m",
                "n", "o", "p", "q", "r", "s", "t", "u", "v", "w", "x", "y", "z" >>
DigitChars == << "0", "1", "2", "3", "4", "5", "6", "7", "8", "9" >>

\* str.lower, on a sequence of characters
lower(s) ==
    [ i \in 1..Len(s) |->
        IF \E k \in 1..26 : UpperCase[k] = s[i]
        THEN LowerCase[CHOOSE k \in 1..26 : UpperCase[k] = s[i]]
        ELSE s[i] ]

\* str.zfill
RECURSIVE zfill(_, _)
zfill(s, width) ==
    IF Len(s) >= width THEN s ELSE zfill(<< "0" >> \o s, width)

\* the keys of month_map
MonthNames ==
    { << "j", "a", "n" >>, << "f", "e", "b" >>, << "m", "a", "r" >>,
      << "a", "p", "r" >>, << "m", "a", "y" >>, << "j", "u", "n" >>,
      << "j", "u", "l" >>, << "a", "u", "g" >>, << "s", "e", "p" >>,
      << "o", "c", "t" >>, << "n", "o", "v" >>, << "d", "e", "c" >>,
      << "j", "a", "n", "u", "a", "r", "y" >>,
      << "f", "e", "b", "r", "u", "a", "r", "y" >>,
      << "m", "a", "r", "c", "h" >>,
      << "a", "p", "r", "i", "l" >>,
      << "j", "u", "n", "e" >>,
      << "j", "u", "l", "y" >>,
      << "a", "u", "g", "u", "s", "t" >>,
      << "s", "e", "p", "t", "e", "m", "b", "e", "r" >>,
      << "o", "c", "t", "o", "b", "e", "r" >>,
      << "n", "o", "v", "e", "m", "b", "e", "r" >>,
      << "d", "e", "c", "e", "m", "b", "e", "r" >> }

\* month_map[month], for a key of month_map
month_map(month) ==
    CASE month = << "j", "a", "n" >> -> << "0", "1" >>
      [] month = << "f", "e", "b" >> -> << "0", "2" >>
      [] month = << "m", "a", "r" >> -> << "0", "3" >>
      [] month = << "a", "p", "r" >> -> << "0", "4" >>
      [] month = << "m", "a", "y" >> -> << "0", "5" >>
      [] month = << "j", "u", "n" >> -> << "0", "6" >>
      [] month = << "j", "u", "l" >> -> << "0", "7" >>
      [] month = << "a", "u", "g" >> -> << "0", "8" >>
      [] month = << "s", "e", "p" >> -> << "0", "9" >>
      [] month = << "o", "c", "t" >> -> << "1", "0" >>
      [] month = << "n", "o", "v" >> -> << "1", "1" >>
      [] month = << "d", "e", "c" >> -> << "1", "2" >>
      [] month = << "j", "a", "n", "u", "a", "r", "y" >> -> << "0", "1" >>
      [] month = << "f", "e", "b", "r", "u", "a", "r", "y" >> -> << "0", "2" >>
      [] month = << "m", "a", "r", "c", "h" >> -> << "0", "3" >>
      [] month = << "a", "p", "r", "i", "l" >> -> << "0", "4" >>
      [] month = << "j", "u", "n", "e" >> -> << "0", "6" >>
      [] month = << "j", "u", "l", "y" >> -> << "0", "7" >>
      [] month = << "a", "u", "g", "u", "s", "t" >> -> << "0", "8" >>
      [] month = << "s", "e", "p", "t", "e", "m", "b", "e", "r" >> -> << "0", "9" >>
      [] month = << "o", "c", "t", "o", "b", "e", "r" >> -> << "1", "0" >>
      [] month = << "n", "o", "v", "e", "m", "b", "e", "r" >> -> << "1", "1" >>
      [] month = << "d", "e", "c", "e", "m", "b", "e", "r" >> -> << "1", "2" >>

\* None, where a text is expected
None == << >>

\* extract_date_from_filename, on the match of the pattern in the name:
\* the text year-month-day, the day being the matched digits filled to two
extract_date_from_filename(match) ==
    IF match.found /\ lower(match.month) \in MonthNames
    THEN << "2", "0", "2", "1" >> \o << "-" >> \o month_map(lower(match.month))
         \o << "-" >> \o zfill(match.day, 2)
    ELSE None

IsDigit(c) == \E k \in 1..10 : DigitChars[k] = c
DigitVal(c) == (CHOOSE k \in 1..10 : DigitChars[k] = c) - 1

RECURSIVE NumVal(_)
NumVal(s) ==
    IF s = << >> THEN 0
    ELSE 10 * NumVal(SubSeq(s, 1, Len(s) - 1)) + DigitVal(s[Len(s)])

DaysIn(y, m) ==
    IF m \in { 4, 6, 9, 11 } THEN 30
    ELSE IF m # 2 THEN 31
    ELSE IF y % 4 = 0 /\ (y % 100 # 0 \/ y % 400 = 0) THEN 29
    ELSE 28

\* pd.to_datetime takes the text: four digits, two digits and two digits
\* that name a day of the calendar
IsDateText(s) ==
    /\ Len(s) = 10
    /\ s[5] = "-" /\ s[8] = "-"
    /\ \A i \in { 1, 2, 3, 4, 6, 7, 9, 10 } : IsDigit(s[i])
    /\ NumVal(SubSeq(s, 6, 7)) \in 1..12
    /\ NumVal(SubSeq(s, 9, 10)) \in
           1..DaysIn(NumVal(SubSeq(s, 1, 4)), NumVal(SubSeq(s, 6, 7)))

\* pd.to_datetime, on a text it takes
to_datetime(s) ==
    << NumVal(SubSeq(s, 1, 4)), NumVal(SubSeq(s, 6, 7)),
       NumVal(SubSeq(s, 9, 10)), 0 >>

Pad2(n) == << DigitChars[((n \div 10) % 10) + 1], DigitChars[(n % 10) + 1] >>

\* .dt.strftime('%Y-%m-%d'), on a timestamp: the time of day is dropped
StandardDate(cell) ==
    Pad2(cell[1] \div 100) \o Pad2(cell[1]) \o << "-" >> \o Pad2(cell[2])
    \o << "-" >> \o Pad2(cell[3])

\* the columns of the frame after the rename loop
Columns(file) == { ColumnMapping(k) : k \in file.columns }

\* the row of df_to_insert made of row i (from 0) of the renamed frame
ImportRow(file, columns, row, i) ==
    [ comment_id    |-> IF "comment_id" \in columns THEN row.comment_id
                        ELSE file.stem \o "_" \o ToString(i),
      submission_id |-> IF "submission_id" \in columns THEN row.submission_id
                        ELSE "unknown",
      body          |-> row.body,
      author        |-> IF "author" \in columns THEN row.author
                        ELSE "[unknown]",
      score         |-> IF "score" \in columns THEN row.score ELSE 0,
      created_utc   |-> 0,
      created_date  |-> IF "created_date" \in columns
                        THEN StandardDate(row.created_date)
                        ELSE StandardDate(to_datetime(
                                 extract_date_from_filename(file.match))),
      edited        |-> FALSE,
      subreddit     |-> "wallstreetbets",
      permalink     |-> "",
      scraped_at    |-> "now",
      scrape_source |-> "csv_migration:" \o file.name ]

\* df[~df['body'].isin(['[deleted]', '[removed]', ''])]
KeepBody(body) == body \notin { "[deleted]", "[removed]", "" }

\* df_to_insert, as a sequence of rows
DfToInsert(file) ==
    LET all == [ i \in 1..Len(file.rows) |->
                   ImportRow(file, Columns(file),
                             RenameRow(file.columns, file.rows[i]), i - 1) ]
    IN  SelectSeq(all, LAMBDA r : KeepBody(r.body))

\* to_sql(if_exists='append', method='multi'): one INSERT of all the rows,
\* which fails as a whole on a taken primary key or a NULL body
ToSqlFails(st, df) ==
    \/ \E i \in 1..Len(df) : HasId(st, df[i].comment_id)
    \/ \E i, j \in 1..Len(df) : i # j /\ df[i].comment_id = df[j].comment_id
    \/ \E i \in 1..Len(df) : df[i].body = NaN

\* one turn of the loop over the files, on the table and the two totals
MigrateFile(acc, file, dry) ==
    LET failed == [ acc EXCEPT !.total_errors = @ + 1 ]
    IN  IF "body" \notin Columns(file) THEN failed
        ELSE IF "created_date" \notin Columns(file)
                /\ extract_date_from_filename(file.match) = None
        THEN failed
        ELSE IF "created_date" \notin Columns(file)
                /\ Len(file.rows) > 0
                /\ ~ IsDateText(extract_date_from_filename(file.match))
        THEN failed
        ELSE IF dry
        THEN [ acc EXCEPT !.total_comments = @ + Len(DfToInsert(file)) ]
        ELSE IF ToSqlFails(acc.conn, DfToInsert(file)) THEN failed
        ELSE [ conn           |-> acc.conn \cup
                                  { DfToInsert(file)[i] :
                                      i \in 1..Len(DfToInsert(file)) },
               total_comments |-> acc.total_comments + Len(DfToInsert(file)),
               total_errors   |-> acc.total_errors ]

\* the files a directory may hold
Files ==
    { [ name    |-> "comments_13_Jan.xlsx", stem |-> "comments_13_Jan",
        suffix  |-> ".xlsx",
        match   |-> [ found |-> TRUE, day |-> << "1", "3" >>,
                      month |-> << "J", "a", "n" >> ],
        columns |-> { "id", "text" },
        rows    |-> << [ id |-> "a", text |-> "csv" ],
                       [ id |-> "b", text |-> "[deleted]" ] >> ],
      [ name    |-> "comments_17_Jan.xlsx", stem |-> "comments_17_Jan",
        suffix  |-> ".xlsx",
        match   |-> [ found |-> TRUE, day |-> << "1", "7" >>,
                      month |-> << "J", "a", "n" >> ],
        columns |-> { "id", "text" },
        rows    |-> << [ id |-> "a", text |-> "again" ],
                       [ id |-> "c", text |-> "new" ] >> ],
      [ name    |-> "comments_14_Jan.xlsx", stem |-> "comments_14_Jan",
        suffix  |-> ".xlsx",
        match   |-> [ found |-> TRUE, day |-> << "1", "4" >>,
                      month |-> << "J", "a", "n" >> ],
        columns |-> { "comment", "date", "upvotes" },
        rows    |-> << [ comment |-> "[removed]", upvotes |-> 3,
                         date |-> << 2021, 1, 14, 9 >> ],
                       [ comment |-> "moon", upvotes |-> 5,
                         date |-> << 2021, 1, 15, 23 >> ] >> ],
      [ name    |-> "comments_x.xlsx", stem |-> "comments_x",
        suffix  |-> ".xlsx",
        match   |-> [ found |-> FALSE ],
        columns |-> { "text", "username" },
        rows    |-> << [ text |-> "gme", username |-> "u2" ] >> ],
      [ name    |-> "comments_15_Jan.xlsx", stem |-> "comments_15_Jan",
        suffix  |-> ".xlsx",
        match   |-> [ found |-> TRUE, day |-> << "1", "5" >>,
                      month |-> << "J", "a", "n" >> ],
        columns |-> { "score", "author" },
        rows    |-> << [ score |-> 1, author |-> "u3" ] >> ],
      [ name    |-> "comments_16_Jan.xlsx", stem |-> "comments_16_Jan",
        suffix  |-> ".xlsx",
        match   |-> [ found |-> TRUE, day |-> << "1", "6" >>,
                      month |-> << "J", "a", "n" >> ],
        columns |-> { "body" },
        rows    |-> << [ body |-> NaN ] >> ],
      [ name    |-> "comments_1_MARCH.xlsx", stem |-> "comments_1_MARCH",
        suffix  |-> ".xlsx",
        match   |-> [ found |-> TRUE, day |-> << "1" >>,
                      month |-> << "M", "A", "R", "C", "H" >> ],
        columns |-> { "body", "submission_id" },
        rows    |-> << [ body |-> "hodl", submission_id |-> "s1" ] >> ],
      [ name    |-> "comments_131_Jan.xlsx", stem |-> "comments_131_Jan",
        suffix  |-> ".xlsx",
        match   |-> [ found |-> TRUE, day |-> << "1", "3", "1" >>,
                      month |-> << "J", "a", "n" >> ],
        columns |-> { "text" },
        rows    |-> << [ text |-> "yolo" ] >> ],
      [ name    |-> "comments_30_Feb.xlsx", stem |-> "comments_30_Feb",
        suffix  |-> ".xlsx",
        match   |-> [ found |-> TRUE, day |-> << "3", "0" >>,
                      month |-> << "F", "e", "b" >> ],
        columns |-> { "text" },
        rows    |-> << >> ],
      [ name    |-> "comments_31_december.csv", stem |-> "comments_31_december",
        suffix  |-> ".csv",
        match   |-> [ found |-> TRUE, day |-> << "3", "1" >>,
                      month |-> << "d", "e", "c", "e", "m", "b", "e", "r" >> ],
        columns |-> { "text", "username" },
        rows    |-> << [ text |-> "apes", username |-> "u4" ] >> ] }

\* a directory holds a file once; glob lists its files in any order
Directories ==
    { dir \in UNION { [1..n -> Files] : n \in 0..MaxFiles } :
        \A i, j \in 1..Len(dir) : i # j => dir[i] # dir[j] }

\* csv_dir.glob, with a pattern ending in the suffix
glob(dir, suffix) == SelectSeq(dir, LAMBDA f : f.suffix = suffix)

\* the files found: those of the pattern, else those of the .csv pattern
FilesFound(dir) ==
    IF Len(glob(dir, ".xlsx")) = 0 THEN glob(dir, ".csv")
    ELSE glob(dir, ".xlsx")

\* the answers given at a prompt, as sequences of characters
Responses == { << "y" >>, << "Y" >>, << "n" >>, << >> }

(***************************************************************************)
(* What the API called "any" does in one run.  It may fail (429, transport     *)
(* error) during the first MaxFailBatch requests.  It answers the first    *)
(* request, when it has not failed before, with any page of Batches, and   *)
(* the requests up to MaxFresh with any page of one comment; then it       *)
(* stalls, answering the page StalePage, up to the request that triggers   *)
(* the periodic commit; then it answers any page of one comment again;     *)
(* from request MaxBatches + 1 on it answers the empty page.               *)
(***************************************************************************)
StalePage == << Comment("a", NoStr, NoInt, FALSE) >>

MayFail(n) == n <= MaxFailBatch

\* the request is one the API stalls on
Stalled(n) == MaxFresh < n /\ n <= COMMIT_EVERY

\* the pages request n of a run may be answered with, after retries failures
Pages(n, retries) ==
    IF n > MaxBatches THEN {}
    ELSE IF Stalled(n) THEN { StalePage }
    ELSE IF n = 1 /\ retries = 0 THEN Batches
    ELSE { << c >> : c \in Payloads }

(***************************************************************************)
(* State.                                                                  *)
(***************************************************************************)
VARIABLES
    pc,             \* position of the scraper process
    store,          \* table comments as the open connection sees it
    committed,      \* table comments as it is on disk
    start_date,     \* --start
    end_date,       \* --end
    start_epoch,
    end_epoch,
    current_after,  \* the cursor
    batch_num,
    total_inserted,
    total_fetched,
    last_utc,       \* the highest created_utc of the last batch
    params,         \* fetch_comments: query of the request
    retries,        \* fetch_comments: attempt counter
    wait,           \* fetch_comments: the wait computed last
    n429,           \* fetch_comments: 429 answers in this call
    nErr,           \* fetch_comments: RequestExceptions caught in this call
    returned,       \* how the last call of fetch_comments returned
    batch,          \* scrape: its local comments, from the insert until the cursor moved
    stats,          \* scrape: total_db, min_date and max_date, once read
    summary,        \* the final statistics, once logged
    interrupted,    \* the cursor and dates of the run that was killed, kept
                    \* up to the first loop test of the run that follows it
    imported,       \* importer: table comments of its database, on disk
    db_exists,      \* importer: its database file exists
    mpc,            \* importer: position of its process
    csv_directory,  \* importer: the files of the directory it reads
    todo,           \* importer: the files the loop has yet to process
    dry_run,        \* importer: --dry-run
    total_comments, \* importer: counter
    total_errors,   \* importer: counter
    migration,      \* importer: how its last run ended, and the totals printed
    api,            \* how the API answers: "any", "ordered" or "stale"
    source          \* the comments the API holds, when it serves them in order

vars == << pc, store, committed, start_date, end_date, start_epoch, end_epoch,
           current_after, batch_num, total_inserted, total_fetched, last_utc,
           params, retries, wait, n429, nErr, returned, batch, stats,
           summary, interrupted, api, source, imported, db_exists, mpc, csv_directory, todo,
           dry_run,
           total_comments, total_errors, migration >>

config   == << start_date, end_date, start_epoch, end_epoch >>
counters == << batch_num, total_inserted, total_fetched, last_utc >>
fetchSt  == << params, retries, wait, n429, nErr >>
importer == << imported, db_exists, mpc, csv_directory, todo, dry_run,
               total_comments, total_errors, migration >>
scraper  == << pc, store, committed, config, current_after, counters, fetchSt,
               returned, batch, stats, summary, interrupted, api, source >>

NoDate    == << 0, 0, 0 >>
NoParams  == [ after |-> 0, before |-> 0, limit |-> BATCH_SIZE ]
NoStats   == [ read |-> FALSE ]
NoSummary == [ logged |-> FALSE ]
NoRun     == [ killed |-> FALSE ]
NoMigration == [ outcome |-> "none" ]

Running == { "loop", "fetch", "throttled", "backoff", "cursor", "commit",
             "exit", "stats", "total", "range", "inserted", "close" }

\* no scraper process: none of its locals exist
NoProcess ==
    /\ start_date' = NoDate
    /\ end_date' = NoDate
    /\ start_epoch' = 0
    /\ end_epoch' = 0
    /\ current_after' = 0
    /\ batch_num' = 0
    /\ total_inserted' = 0
    /\ total_fetched' = 0
    /\ last_utc' = 0
    /\ params' = NoParams
    /\ retries' = 0
    /\ wait' = 0
    /\ n429' = 0
    /\ nErr' = 0
    /\ returned' = "none"
    /\ batch' = << >>
    /\ stats' = NoStats

\* before the first command: an empty database, no process
Fresh ==
    /\ pc = "idle"
    /\ store = {}
    /\ committed = {}
    /\ start_date = NoDate
    /\ end_date = NoDate
    /\ start_epoch = 0
    /\ end_epoch = 0
    /\ current_after = 0
    /\ batch_num = 0
    /\ total_inserted = 0
    /\ total_fetched = 0
    /\ last_utc = 0
    /\ params = NoParams
    /\ retries = 0
    /\ wait = 0
    /\ n429 = 0
    /\ nErr = 0
    /\ returned = "none"
    /\ batch = << >>
    /\ stats = NoStats
    /\ summary = NoSummary
    /\ interrupted = NoRun
    /\ imported = {}
    /\ mpc = "idle"
    /\ csv_directory = << >>
    /\ todo = << >>
    /\ dry_run = FALSE
    /\ total_comments = 0
    /\ total_errors = 0
    /\ migration = NoMigration

\* the API answers as Pages and MayFail say and consults no source
AnyApi == api = "any" /\ source = << >>

Init == Fresh /\ AnyApi /\ db_exists = FALSE

(***************************************************************************)
(* scrape                                                                  *)
(***************************************************************************)
\* scrape up to the while loop: parse the dates, find the resume point
Start(sd, ed) ==
    /\ pc \in { "idle", "done", "killed" }
    /\ start_date' = sd
    /\ end_date' = ed
    /\ start_epoch' = date_to_epoch(sd)
    /\ end_epoch' = date_to_epoch(ed)
    /\ current_after' = ResumePoint(store, date_to_epoch(sd))
    /\ batch_num' = 0
    /\ total_inserted' = 0
    /\ total_fetched' = 0
    /\ last_utc' = 0
    /\ params' = NoParams
    /\ retries' = 0
    /\ wait' = 0
    /\ n429' = 0
    /\ nErr' = 0
    /\ returned' = "none"
    /\ summary' = NoSummary
    /\ pc' = "loop"
    /\ UNCHANGED << api, source, batch, stats, store, committed, interrupted, importer >>

\* while current_after < end_epoch: the call of fetch_comments begins
EnterBatch ==
    /\ pc = "loop"
    /\ current_after < end_epoch
    /\ batch_num' = batch_num + 1
    /\ params' = [ after |-> current_after, before |-> end_epoch,
                   limit |-> BATCH_SIZE ]
    /\ retries' = 0
    /\ wait' = 0
    /\ n429' = 0
    /\ nErr' = 0
    /\ interrupted' = NoRun
    /\ pc' = "fetch"
    /\ UNCHANGED << api, source, batch, stats, store, committed, config, current_after, total_inserted,
                    total_fetched, last_utc, returned, summary, importer >>

\* the while condition fails
LeaveLoop ==
    /\ pc = "loop"
    /\ ~ (current_after < end_epoch)
    /\ interrupted' = NoRun
    /\ pc' = "exit"
    /\ UNCHANGED << api, source, batch, stats, store, committed, config, current_after, counters, fetchSt,
                    returned, summary, importer >>

\* fetch_comments: the API answers 429; the wait is computed and logged and
\* the process sleeps, retries not yet incremented
Fetch429 ==
    /\ pc = "fetch"
    /\ retries < max_retries
    /\ MayFail(batch_num)
    /\ wait' = ThrottleWait(retries)
    /\ n429' = n429 + 1
    /\ pc' = "throttled"
    /\ UNCHANGED << api, source, batch, stats, store, committed, config,
                    current_after, counters, params, retries, nErr, returned,
                    summary, interrupted, importer >>

\* the sleep of the 429 branch is over: retries += 1; continue
Retry429 ==
    /\ pc = "throttled"
    /\ retries' = AfterThrottle(retries)
    /\ pc' = "fetch"
    /\ UNCHANGED << api, source, batch, stats, store, committed, config,
                    current_after, counters, params, wait, n429, nErr, returned,
                    summary, interrupted, importer >>

\* fetch_comments: the request raises a RequestException; retries += 1, the
\* wait is computed and logged and the process sleeps
FetchError ==
    /\ pc = "fetch"
    /\ retries < max_retries
    /\ MayFail(batch_num)
    /\ retries' = retries + 1
    /\ wait' = ErrorWait(retries + 1)
    /\ nErr' = nErr + 1
    /\ pc' = "backoff"
    /\ UNCHANGED << api, source, batch, stats, store, committed, config,
                    current_after, counters, params, n429, returned, summary,
                    interrupted, importer >>

\* the sleep of the except branch is over: back to the while test
RetryError ==
    /\ pc = "backoff"
    /\ pc' = "fetch"
    /\ UNCHANGED << api, source, batch, stats, store, committed, config,
                    current_after, counters, fetchSt, returned, summary,
                    interrupted, importer >>

\* fetch_comments returns the data of a 200 answer; the loop body counts
\* and inserts the batch
FetchBatch(data) ==
    /\ pc = "fetch"
    /\ retries < max_retries
    /\ data # << >>
    /\ batch' = data
    /\ LET res == insert_comments(store, data)
       IN  /\ total_fetched' = total_fetched + Len(data)
           /\ store' = res.conn
           /\ total_inserted' = total_inserted + res.inserted
    /\ params' = NoParams
    /\ retries' = 0
    /\ wait' = 0
    /\ n429' = 0
    /\ nErr' = 0
    /\ returned' = "data"
    /\ pc' = "cursor"
    /\ UNCHANGED << api, source, stats, committed, config, current_after,
                    batch_num, last_utc, summary, interrupted, importer >>

\* "Move cursor forward"; the batch is not read again
MoveCursor ==
    /\ pc = "cursor"
    /\ last_utc' = LastUtc(batch)
    /\ current_after' = NextCursor(current_after, batch)
    /\ batch' = << >>
    /\ pc' = IF batch_num % COMMIT_EVERY = 0 THEN "commit" ELSE "loop"
    /\ UNCHANGED << api, source, stats, store, committed, config, batch_num,
                    total_inserted, total_fetched, fetchSt, returned, summary,
                    interrupted, importer >>

\* if batch_num % 10 == 0: conn.commit(), and the progress line
PeriodicCommit ==
    /\ pc = "commit"
    /\ committed' = store
    /\ pc' = "loop"
    /\ UNCHANGED << api, source, batch, stats, store, config, current_after, counters, fetchSt,
                    returned, summary, interrupted, importer >>

\* fetch_comments returns the empty data of a 200 answer; if not comments: break
FetchEmpty ==
    /\ pc = "fetch"
    /\ retries < max_retries
    /\ params' = NoParams
    /\ retries' = 0
    /\ wait' = 0
    /\ n429' = 0
    /\ nErr' = 0
    /\ returned' = "empty"
    /\ pc' = "exit"
    /\ UNCHANGED << api, source, batch, stats, store, committed, config, current_after, counters,
                    summary, interrupted, importer >>

\* fetch_comments: the while condition fails, "Max retries exceeded", and it
\* returns []; if not comments: break
FetchGiveUp ==
    /\ pc = "fetch"
    /\ ~ (retries < max_retries)
    /\ returned' = "exhausted"
    /\ pc' = "exit"
    /\ UNCHANGED << api, source, batch, stats, store, committed, config, current_after, counters, fetchSt,
                    summary, interrupted, importer >>

\* variant: the loop is left without the final commit
FinalNoCommit ==
    /\ pc = "exit"
    /\ pc' = "stats"
    /\ UNCHANGED << api, source, batch, stats, store, committed, config, current_after, counters,
                    fetchSt, returned, summary, interrupted, importer >>

\* after the loop: conn.commit()
FinalCommit ==
    /\ pc = "exit"
    /\ committed' = store
    /\ pc' = "stats"
    /\ UNCHANGED << api, source, batch, stats, store, config, current_after, counters, fetchSt,
                    returned, summary, interrupted, importer >>

\* "Final stats": the three queries; then "Scraping complete!" is logged
LogComplete ==
    /\ pc = "stats"
    /\ stats' = [ read     |-> TRUE,
                  total_db |-> Cardinality(store),
                  min_date |-> IF store = {} THEN NoDate ELSE MinDate(store),
                  max_date |-> IF store = {} THEN NoDate ELSE MaxDate(store) ]
    /\ summary' = [ logged |-> TRUE ]
    /\ pc' = "total"
    /\ UNCHANGED << api, source, batch, store, committed, config,
                    current_after, counters, fetchSt, returned, interrupted,
                    importer >>

\* "Total comments in database" is logged
LogTotal ==
    /\ pc = "total"
    /\ summary' = [ logged   |-> TRUE,
                    total_db |-> stats.total_db ]
    /\ pc' = "range"
    /\ UNCHANGED << api, source, batch, stats, store, committed, config,
                    current_after, counters, fetchSt, returned, interrupted,
                    importer >>

\* "Date range" is logged
LogRange ==
    /\ pc = "range"
    /\ summary' = [ logged   |-> TRUE,
                    total_db |-> summary.total_db,
                    min_date |-> stats.min_date,
                    max_date |-> stats.max_date ]
    /\ pc' = "inserted"
    /\ UNCHANGED << api, source, batch, stats, store, committed, config,
                    current_after, counters, fetchSt, returned, interrupted,
                    importer >>

\* "New comments inserted this run" is logged
LogInserted ==
    /\ pc = "inserted"
    /\ summary' = [ logged         |-> TRUE,
                    total_db       |-> summary.total_db,
                    min_date       |-> summary.min_date,
                    max_date       |-> summary.max_date,
                    total_inserted |-> total_inserted ]
    /\ pc' = "close"
    /\ UNCHANGED << api, source, batch, stats, store, committed, config,
                    current_after, counters, fetchSt, returned, interrupted,
                    importer >>

\* conn.close(); scrape returns and the process ends
Finish ==
    /\ pc = "close"
    /\ NoProcess
    /\ pc' = "done"
    /\ UNCHANGED << api, source, store, committed, summary, interrupted,
                    importer >>

\* the process is terminated: what was not committed is rolled back; what
\* was logged stays logged
Kill ==
    /\ pc \in Running
    /\ store' = committed
    /\ interrupted' = [ killed |-> TRUE, start_date |-> start_date,
                        end_date |-> end_date, after |-> current_after ]
    /\ NoProcess
    /\ pc' = "killed"
    /\ UNCHANGED << api, source, committed, summary, importer >>

(***************************************************************************)
(* The importer: a process of its own, on its own database (db_path,       *)
(* created with the schema of setup_database.py).                          *)
(***************************************************************************)
MigrationRunning == { "create?", "find", "proceed?", "files" }

\* the importer's process is gone, and its variables with it
NoMigrationProcess ==
    /\ csv_directory' = << >>
    /\ todo' = << >>
    /\ dry_run' = FALSE
    /\ total_comments' = 0
    /\ total_errors' = 0
    /\ mpc' = "idle"

\* migrate_csv_to_sqlite is called: does the database exist?
MigrateBegin(dir, dry) ==
    /\ mpc = "idle"
    /\ csv_directory' = dir
    /\ dry_run' = dry
    /\ todo' = << >>
    /\ total_comments' = 0
    /\ total_errors' = 0
    /\ migration' = NoMigration
    /\ mpc' = IF db_exists THEN "find" ELSE "create?"
    /\ UNCHANGED << imported, db_exists, scraper >>

\* the answer to "Create new database? (y/n)"
AnswerCreate(response) ==
    /\ mpc = "create?"
    /\ IF lower(response) = << "y" >>
       THEN /\ db_exists' = TRUE
            /\ imported' = {}
            /\ mpc' = "find"
            /\ UNCHANGED migration
            /\ UNCHANGED << csv_directory, todo, dry_run, total_comments,
                            total_errors >>
       ELSE /\ migration' = [ outcome |-> "cancelled" ]
            /\ NoMigrationProcess
            /\ UNCHANGED << db_exists, imported >>
    /\ UNCHANGED scraper

\* the files are listed; without --dry-run the plan waits for an answer
FindFiles ==
    /\ mpc = "find"
    /\ LET files == FilesFound(csv_directory)
       IN  IF Len(files) = 0
           THEN /\ migration' = [ outcome |-> "no files" ]
                /\ NoMigrationProcess
           ELSE /\ todo' = files
                /\ mpc' = IF dry_run THEN "files" ELSE "proceed?"
                /\ UNCHANGED << migration, csv_directory, dry_run,
                                total_comments, total_errors >>
    /\ UNCHANGED << imported, db_exists, scraper >>

\* the answer to "Proceed with migration? (y/n)"
AnswerProceed(response) ==
    /\ mpc = "proceed?"
    /\ IF lower(response) # << "y" >>
       THEN /\ migration' = [ outcome |-> "cancelled" ]
            /\ NoMigrationProcess
       ELSE /\ mpc' = "files"
            /\ UNCHANGED << migration, csv_directory, todo, dry_run,
                            total_comments, total_errors >>
    /\ UNCHANGED << imported, db_exists, scraper >>

\* one turn of the loop over the files; the file's rows are committed
MigrateOneFile ==
    /\ mpc = "files"
    /\ todo # << >>
    /\ LET res == MigrateFile([ conn           |-> imported,
                                total_comments |-> total_comments,
                                total_errors   |-> total_errors ],
                              Head(todo), dry_run)
       IN  /\ imported' = res.conn
           /\ total_comments' = res.total_comments
           /\ total_errors' = res.total_errors
    /\ todo' = Tail(todo)
    /\ UNCHANGED << db_exists, mpc, csv_directory, dry_run, migration, scraper >>

\* after the loop: the connection is closed and the summary printed
MigrateEnd ==
    /\ mpc = "files"
    /\ todo = << >>
    /\ migration' = [ outcome         |-> "summary",
                      files_processed |-> Len(FilesFound(csv_directory)),
                      total_comments  |-> total_comments,
                      total_errors    |-> total_errors,
                      dry_run         |-> dry_run ]
    /\ NoMigrationProcess
    /\ UNCHANGED << imported, db_exists, scraper >>

\* the importer is terminated: the files committed so far stay imported
MigrateKill ==
    /\ mpc \in MigrationRunning
    /\ migration' = [ outcome |-> "killed" ]
    /\ NoMigrationProcess
    /\ UNCHANGED << imported, db_exists, scraper >>

ImportNext ==
    \/ \E dir \in Directories, dry \in BOOLEAN : MigrateBegin(dir, dry)
    \/ \E response \in Responses : AnswerCreate(response)
    \/ FindFiles
    \/ \E response \in Responses : AnswerProceed(response)
    \/ MigrateOneFile
    \/ MigrateEnd
    \/ MigrateKill

ImportInit == Fresh /\ AnyApi /\ db_exists \in BOOLEAN

ImportSpec == ImportInit /\ [][ImportNext]_vars

\* the steps of the loop that call nothing
LoopStep ==
    \/ EnterBatch
    \/ LeaveLoop
    \/ MoveCursor
    \/ PeriodicCommit

\* the steps after the loop
EndStep ==
    \/ FinalCommit
    \/ LogComplete
    \/ LogTotal
    \/ LogRange
    \/ LogInserted
    \/ Finish

\* fetch_comments with the API that answers as Pages and MayFail say
AnyAnswer ==
    \/ api = "any" /\ Fetch429
    \/ api = "any" /\ Retry429
    \/ api = "any" /\ FetchError
    \/ api = "any" /\ RetryError
    \/ api = "any" /\ \E data \in Pages(batch_num, retries) : FetchBatch(data)
    \/ api = "any" /\ ~ Stalled(batch_num) /\ FetchEmpty
    \/ api = "any" /\ FetchGiveUp

\* fetch_comments with the API that answers every request, for ever, with
\* the page StalePage: it never fails and never answers the empty page
StaleAnswer ==
    /\ api = "stale"
    /\ FetchBatch(StalePage)

Next ==
    \/ \E sd \in StartDates, ed \in EndDates : Start(sd, ed)
    \/ LoopStep
    \/ AnyAnswer
    \/ EndStep
    \/ Kill

Spec == Init /\ [][Next]_vars

\* the steps of a running scraper
RunStep ==
    \/ LoopStep
    \/ AnyAnswer
    \/ StaleAnswer
    \/ EndStep

\* runs that nobody kills, each request of which is answered
NextLive ==
    \/ \E sd \in StartDates, ed \in EndDates : Start(sd, ed)
    \/ RunStep

LiveInit ==
    /\ Fresh
    /\ db_exists = FALSE
    /\ \/ AnyApi
       \/ api = "stale" /\ source = << >>

LiveSpec == LiveInit /\ [][NextLive]_vars /\ WF_vars(RunStep)

(***************************************************************************)
(* An API that never fails and serves a source in order: to the request    *)
(* (after, before, limit, sort asc by created_utc) it answers the first    *)
(* limit batch of the source with after < created_utc < before.         *)
(***************************************************************************)
\* the second, from the start date, at which comment k of a source was made
SecondOf(shape, k) ==
    CASE shape = "distinct" -> k - 1
      [] shape = "paired"   -> k \div 2 + 1
      [] shape = "sparse"   -> (k - 1) * 90

\* a source of n comments in ascending order of created_utc, every fifth
\* of them deleted
Source(shape, n) ==
    [ k \in 1..n |->
        Comment(ToString(k), IF k % 5 = 0 THEN "[deleted]" ELSE "hi",
                Dec1 + SecondOf(shape, k), TRUE) ]

Sources ==
    { Source(shape, n) :
        shape \in { "distinct", "paired", "sparse" },
        n \in { 0, 1, BATCH_SIZE, BATCH_SIZE + 1, MaxRecords } }

\* the answer to the request with the query p
SortedPage(src, p) ==
    LET window == SelectSeq(src, LAMBDA c : /\ p.after < c.created_utc
                                            /\ c.created_utc < p.before)
    IN  SubSeq(window, 1, Min(Len(window), p.limit))

OrderedApi == api = "ordered" /\ source \in Sources

SortedInit == Fresh /\ OrderedApi /\ db_exists = FALSE

\* the request is answered with a page that holds comments
FetchSorted ==
    /\ pc = "fetch"
    /\ SortedPage(source, params) # << >>
    /\ FetchBatch(SortedPage(source, params))

\* the request is answered with the empty page
FetchNone ==
    /\ pc = "fetch"
    /\ SortedPage(source, params) = << >>
    /\ FetchEmpty

\* fetch_comments with the API that serves its source in order
OrderedAnswer ==
    \/ api = "ordered" /\ FetchSorted
    \/ api = "ordered" /\ FetchNone

\* one run, on the empty Store, that nobody kills
SortedNext ==
    \/ \E sd \in StartDates, ed \in EndDates : pc = "idle" /\ Start(sd, ed)
    \/ LoopStep
    \/ OrderedAnswer
    \/ EndStep

SortedSpec == SortedInit /\ [][SortedNext]_vars

\* runs against either API, any of which may be killed and run again
CrashInit ==
    /\ Fresh
    /\ db_exists = FALSE
    /\ \/ AnyApi
       \/ OrderedApi

CrashNext ==
    \/ \E sd \in StartDates, ed \in EndDates : Start(sd, ed)
    \/ LoopStep
    \/ AnyAnswer
    \/ OrderedAnswer
    \/ EndStep
    \/ Kill

CrashSpec == CrashInit /\ [][CrashNext]_vars

(***************************************************************************)
(* The two tools side by side, each on its database: one run of the        *)
(* scraper against an API that serves MixedSource in order, and runs of    *)
(* the importer on directories of at most one file.                        *)
(***************************************************************************)
MixedSource ==
    << Comment("1", "hi", Dec1 + 1, TRUE),
       Comment("2", "[deleted]", Dec1 + 2, TRUE),
       Comment("3", "[removed]", Dec1 + 3, TRUE),
       Comment("4", "", Dec1 + 4, TRUE),
       Comment("5", "moon", Dec1 + 5, TRUE) >>

PipelineInit ==
    /\ Fresh
    /\ api = "ordered"
    /\ source = MixedSource
    /\ db_exists \in BOOLEAN

\* MixedSource is answered in one page: no tenth batch, no PeriodicCommit
PipelineNext ==
    \/ \E sd \in StartDates, ed \in EndDates : pc = "idle" /\ Start(sd, ed)
    \/ EnterBatch
    \/ LeaveLoop
    \/ MoveCursor
    \/ OrderedAnswer
    \/ EndStep
    \/ \E dir \in { d \in Directories : Len(d) <= 1 }, dry \in BOOLEAN :
           MigrateBegin(dir, dry)
    \/ \E response \in Responses : AnswerCreate(response)
    \/ FindFiles
    \/ \E response \in Responses : AnswerProceed(response)
    \/ MigrateOneFile
    \/ MigrateEnd
    \/ MigrateKill

PipelineSpec == PipelineInit /\ [][PipelineNext]_vars

(***************************************************************************)
(* Properties.                                                             *)
(***************************************************************************)
UniqueIds(st) == \A r1, r2 \in st : r1.comment_id = r2.comment_id => r1 = r2

\* the step that counts and inserts a non-empty batch
BatchStep == pc = "fetch" /\ pc' = "cursor"

\* the step that moves the cursor after a batch
CursorStep == pc = "cursor" /\ pc' \in { "loop", "commit" }

\* C1: inserting a batch never removes or changes a stored row, so a record
\* whose id is taken is a no-op, and the Store (as the connection sees it and
\* on disk) never holds two rows of one id.
C1_IdempotentInsert ==
    /\ [](UniqueIds(store) /\ UniqueIds(committed))
    /\ [][BatchStep => \A r \in store : r \in store']_vars

\* two records that are not excluded were processed and one row is stored:
\* the second had the id of the first
C1_Witness ==
    /\ pc = "loop"
    /\ batch_num = 1
    /\ total_fetched = 2
    /\ total_inserted = 2
    /\ Cardinality(store) = 1

\* C2: the first request of a run has after = the Store's maximum created_utc
\* when that exceeds the start boundary, and after = the start boundary when
\* the Store is empty or its maximum is not above the boundary.
C2_ResumePosition ==
    (pc = "fetch" /\ batch_num = 1) =>
        /\ params.before = end_epoch
        /\ IF store # {} /\ MaxCreatedUtc(store) > start_epoch
           THEN params.after = MaxCreatedUtc(store)
           ELSE params.after = start_epoch

C2_Witness ==
    /\ pc = "fetch"
    /\ batch_num = 1
    /\ store # {}
    /\ MaxCreatedUtc(store) > start_epoch
    /\ params.after = MaxCreatedUtc(store)

\* C3: processing a batch leaves the cursor >= the cursor before and >= the
\* highest created_utc of the batch, and no step of a run moves it backward.
C3_CursorMonotonic ==
    /\ [][CursorStep => /\ current_after' >= current_after
                       /\ current_after' >= last_utc']_vars
    /\ [][(pc \in Running /\ pc' \in Running)
              => current_after' >= current_after]_vars

\* a stale batch was processed: its maximum lies below the cursor before it
C3_Witness ==
    /\ pc = "loop"
    /\ returned = "data"
    /\ last_utc > 0
    /\ last_utc + 1 < current_after

\* C4: no row written by the scraper or by the importer has an excluded body.
C4_ContentFiltering ==
    \A r \in store \cup committed \cup imported :
        r.body \notin { "[deleted]", "[removed]", "" }

\* the scraper processed a batch with the three excluded bodies, and the
\* importer a file with an excluded body, and each wrote the other rows
C4_Witness ==
    /\ pc = "loop"
    /\ total_fetched = Len(MixedSource)
    /\ Cardinality(store) = 2
    /\ mpc = "files"
    /\ todo = << >>
    /\ "body" \in Columns(csv_directory[1])
    /\ \E i \in 1..Len(csv_directory[1].rows) :
           ~ KeepBody(RenameRow(csv_directory[1].columns,
                                csv_directory[1].rows[i]).body)
    /\ Cardinality(imported) = 1
    /\ total_comments = 1

\* C5: a wait computed after a 429 is at most 60, a wait computed after a
\* transport error is at most 30, and one call spends at most 5 retries.
C5_BackoffBound ==
    /\ [](nErr <= 5 /\ retries <= 5)
    /\ [][(pc = "fetch" /\ n429' = n429 + 1) => wait' <= 60]_vars
    /\ [][(pc = "fetch" /\ nErr' = nErr + 1) => wait' <= 30]_vars

\* the fifth attempt of a call was throttled, after four transport errors
C5_Witness ==
    /\ pc = "fetch"
    /\ retries = 5
    /\ nErr = 4
    /\ wait = 60

\* C6 as stated: fetch_comments gives up only once five transport errors
\* have used up the budget; throttling alone never ends the call.
C6_ThrottleUncapped ==
    returned = "exhausted" => nErr = max_retries

\* C6 as amended: 429 answers and transport errors share the one attempt
\* counter (a 429 is counted once its wait is over, an error before its
\* wait); the call gives up after five failed attempts of either kind.
C6_SharedBudget ==
    /\ pc \in { "fetch", "backoff" } => retries = n429 + nErr
    /\ pc = "throttled" => retries + 1 = n429 + nErr
    /\ returned = "exhausted" => n429 + nErr = max_retries

\* the call gave up after five 429 answers and no transport error
C6_Witness ==
    /\ returned = "exhausted"
    /\ n429 = max_retries
    /\ nErr = 0

\* C7: a call that exhausted its retries does not end the ingestion before
\* the end boundary.
C7_ExhaustionNotCompletion ==
    ~ (pc = "exit" /\ returned = "exhausted" /\ current_after < end_epoch)

\* the run that follows a killed run, with the same dates, at its first loop test
Restarted ==
    /\ pc = "loop"
    /\ interrupted.killed
    /\ interrupted.start_date = start_date
    /\ interrupted.end_date = end_date

\* C8 as stated: the restarted run begins at or after the cursor the killed
\* run had reached, and the Store holds no duplicate.
C8_NoRefetch ==
    /\ UniqueIds(store)
    /\ Restarted => current_after >= interrupted.after

\* C8 as amended: the restarted run begins at the resume point of the
\* committed Store, which is at or before the cursor the killed run had
\* reached, and the Store holds no duplicate.
C8_RestartAtCommitted ==
    /\ UniqueIds(store)
    /\ Restarted => /\ current_after <= interrupted.after
                    /\ store = committed
                    /\ current_after \in { start_epoch } \cup
                                         { r.created_utc : r \in committed }

\* a restarted run begins before the cursor the killed run had reached
C8_Witness ==
    /\ Restarted
    /\ current_after < interrupted.after
    /\ store # {}
    /\ current_after > start_epoch

\* C9: a non-empty batch whose maximum is <= the cursor moves the cursor by
\* exactly one second, and the next request starts from the moved cursor.
C9_StalledWindow ==
    /\ [][(CursorStep /\ last_utc' <= current_after)
              => current_after' = current_after + 1]_vars
    /\ [](pc = "fetch" => params.after = current_after)
    /\ [][(pc = "loop" /\ pc' = "fetch") => params'.after = current_after]_vars

\* the maximum of the batch equalled the cursor, which moved by one
C9_Witness ==
    /\ pc = "loop"
    /\ returned = "data"
    /\ last_utc > start_epoch
    /\ current_after = last_utc + 1

\* C10: when every fetch call returns and nobody kills the process, every
\* run ends; each move of the cursor is strictly forward; the loop is left
\* only into the final commit, which is followed by "Scraping complete!",
\* the total of the table, its date range and the rows inserted by the run,
\* one after the other, and then by the close; a run that has ended has
\* logged all of them and left every row on disk.
C10_Termination ==
    /\ (pc \in Running) ~> (pc = "done")
    /\ [][CursorStep => current_after' > current_after]_vars
    /\ [][(pc = "exit" /\ pc' # "exit")
              => pc' = "stats" /\ committed' = store]_vars
    /\ [][(pc = "stats" /\ pc' # "stats")
              => pc' = "total" /\ summary'.logged]_vars
    /\ [][(pc = "total" /\ pc' # "total")
              => /\ pc' = "range"
                 /\ summary'.total_db = Cardinality(store)]_vars
    /\ [][(pc = "range" /\ pc' # "range")
              => /\ pc' = "inserted"
                 /\ \A r \in store : /\ DateLeq(summary'.min_date, r.date)
                                     /\ DateLeq(r.date, summary'.max_date)]_vars
    /\ [][(pc = "inserted" /\ pc' # "inserted")
              => /\ pc' = "close"
                 /\ summary'.total_inserted = total_inserted]_vars
    /\ [][(pc = "close" /\ pc' # "close")
              => pc' = "done" /\ summary' = summary]_vars
    /\ [](pc = "done" => /\ summary.logged
                         /\ summary.total_db = Cardinality(store)
                         /\ "min_date" \in DOMAIN summary
                         /\ "total_inserted" \in DOMAIN summary
                         /\ committed = store)

\* a run that reached the end boundary has ended, its rows committed
C10_Witness ==
    /\ pc = "done"
    /\ summary.logged
    /\ summary.total_db = 2
    /\ summary.total_inserted > 2
    /\ committed = store

\* the Store as the for loop of insert_comments finds it at comments[i]
StoreAt(st, comments, i) == insert_comments(st, SubSeq(comments, 1, i - 1)).conn

\* C11: every record of a fetched batch whose body is not excluded and whose
\* id, if the payload has one, is not in the Store when the record is
\* handled, is in the Store after the batch, as the row made of its fields
\* and the defaults of the absent ones; a record without an id included.
C11_MissingFieldsKept ==
    [][\A data \in Pages(batch_num, retries) :
          FetchBatch(data) =>
              \A i \in 1..Len(data) :
                  ( /\ Get(data[i], "body", "") \notin { "[deleted]", "[removed]", "" }
                    /\ "id" \in DOMAIN data[i]
                          => ~ HasId(StoreAt(store, data, i), data[i].id) )
                      => CommentRow(data[i]) \in store']_vars

\* C12: the count insert_comments adds to the run's total is the growth of
\* the Store over the batch, no other step of a run changes the number of
\* rows, and the summary reports that total as the rows inserted by the run.
C12_InsertedExact ==
    /\ [][BatchStep => total_inserted' - total_inserted
                          = Cardinality(store') - Cardinality(store)]_vars
    /\ [][(pc \in Running /\ pc' \in Running /\ ~ BatchStep)
              => /\ Cardinality(store') = Cardinality(store)
                 /\ total_inserted' = total_inserted]_vars
    /\ [][(pc = "inserted" /\ pc' = "close")
              => summary'.total_inserted = total_inserted]_vars

\* a file the importer has no reason of its own to reject: a body column, a
\* date from a column or from the file name, and no empty body cell
Importable(file) ==
    /\ "body" \in Columns(file)
    /\ \/ "created_date" \in Columns(file)
       \/ IsDateText(extract_date_from_filename(file.match))
       \/ /\ extract_date_from_filename(file.match) # None
          /\ Len(file.rows) = 0
    /\ \A i \in 1..Len(DfToInsert(file)) : DfToInsert(file)[i].body # NaN

\* C13: the import of a file never changes or removes a stored row, and
\* when the file is importable no error is counted for it and the id of each
\* of its rows is in the Store afterwards, whether or not some id of the
\* file was stored before.
C13_ImporterIdempotent ==
    [][(MigrateOneFile /\ ~ dry_run) =>
          /\ \A r \in imported : r \in imported'
          /\ Importable(Head(todo))
                => /\ total_errors' = total_errors
                   /\ \A i \in 1..Len(DfToInsert(Head(todo))) :
                         HasId(imported',
                               DfToInsert(Head(todo))[i].comment_id)]_vars

\* C14: when the API serves its source in order and never fails, a run
\* started on the empty Store leaves its loop with every comment of the
\* source made strictly between the start and the end boundary, and whose
\* body is not excluded, in the Store; comments made in the second at which
\* a page was cut included.
C14_PaginationComplete ==
    pc = "exit" =>
        \A k \in 1..Len(source) :
            ( /\ start_epoch < source[k].created_utc
              /\ source[k].created_utc < end_epoch
              /\ source[k].body \notin { "[deleted]", "[removed]", "" } )
                => CommentRow(source[k]) \in store

\* the rows on disk change only with the commit after a batch that ends a
\* group of ten and with the commit after the loop, and then become the rows
\* of the connection
CommitsAtBoundaries ==
    [][committed' # committed
         => \/ /\ pc = "commit" /\ pc' = "loop"
               /\ batch_num % 10 = 0 /\ committed' = store
            \/ pc = "exit" /\ pc' = "stats" /\ committed' = store]_vars

\* C15 as stated: (1) commits happen only at batch boundaries; (2) in every
\* state of a run no stored row is later than the cursor; (3) when the
\* process is killed, the resume point of the rows on disk is <= the
\* created_utc of every row that is lost with it; (4) a run restarted with
\* the same dates begins at that resume point.
C15_AsStated ==
    /\ CommitsAtBoundaries
    /\ [](pc \in Running => \A r \in store : r.created_utc <= current_after)
    /\ [][(pc \in Running /\ pc' = "killed")
            => \A r \in store \ committed :
                   ResumePoint(committed, start_epoch) <= r.created_utc]_vars
    /\ [](Restarted => current_after = ResumePoint(committed, start_epoch))

\* C15 as amended: (1) commits happen only at batch boundaries; (2) in every
\* state of a run but the one between the insert of a batch and the move of
\* the cursor, no stored row is later than the cursor; (3) when the API
\* serves its source in order, within the requested window, and the process
\* is killed, every row that is lost with it was made after the resume point
\* of the rows on disk and before the end boundary, that is, in the window
\* a run restarted with the same dates requests first; (4) such a run does
\* begin at that resume point, on the rows that were on disk.
C15_NoLossAcrossCrash ==
    /\ CommitsAtBoundaries
    /\ []((pc \in Running /\ pc # "cursor")
             => \A r \in store : r.created_utc <= current_after)
    /\ [][(api = "ordered" /\ pc \in Running /\ pc' = "killed")
            => \A r \in store \ committed :
                   /\ ResumePoint(committed, start_epoch) < r.created_utc
                   /\ r.created_utc < end_epoch]_vars
    /\ [](Restarted => /\ store = committed
                       /\ current_after = ResumePoint(committed, start_epoch))

\* a run was killed after its tenth batch was committed and further batches
\* were not, and the run that follows it begins behind the cursor it had
C15_Witness ==
    /\ api = "ordered"
    /\ Restarted
    /\ Cardinality(committed) = 8 * BATCH_SIZE
    /\ current_after = MaxCreatedUtc(committed)
    /\ current_after < interrupted.after

============================================================================
